---- MODULE Spec2Model ----
(***************************************************************************)
(* Model of ebcli/controllers/initialize.py: the `eb init` controller.    *)
(*                                                                         *)
(* InitController.do_command is a sequential procedure; the model follows  *)
(* its position with pc and keeps the controller's attributes in self, the *)
(* parsed arguments in pargs and the calls made on the collaborators       *)
(* (operations, fileoperations, aws, io, utils) in log.                    *)
(***************************************************************************)
EXTENDS Integers, Sequences, FiniteSets, TLC

VARIABLES
    argv,            \* the command line as given; never changes
    pargs,           \* self.app.pargs (get_old_values assigns into it)
    self,            \* attributes of the InitController
    default_env,     \* local of do_command
    key,             \* local of do_command: key name returned by create_app
    old_values,      \* what get_old_values read from the old eb config
    aws_profile,     \* the profile selected with aws.set_profile
    profile_status,  \* what the remote validation has answered per profile
    depth,           \* nesting depth of check_credentials
    pc,              \* position in do_command
    error,           \* the exception that left do_command
    setup_call,      \* arguments of operations.setup
    log,             \* calls made on the collaborators, in order
    namer            \* one call of _get_application_name_interactive

vars == <<argv, pargs, self, default_env, key, old_values, aws_profile,
          profile_status, depth, pc, error, setup_call, log, namer>>

-----------------------------------------------------------------------------
(* Bounds *)

\* Nesting depth of check_credentials at which the interpreter gives up
\* (stands for Python's recursion limit).
MaxRecursion == 3
\* Largest number of applications the remote lists.
MaxApps == 2
\* Largest number of answers the user types at the unique-name prompt.
MaxTyped == 2

-----------------------------------------------------------------------------
(* Values *)

NONE == "<None>"         \* Python None; also the [] default of application_name
EMPTY == ""              \* the empty string
UNSET == "<unset>"       \* an attribute or local not assigned yet

\* Python truthiness of an optional string: `not v`.
Falsy(v) == v \in {NONE, EMPTY}

Range(s) == {s[i] : i \in 1..Len(s)}

\* The command lines: each option absent, empty or given.
CommandLines ==
    [application_name : {NONE, EMPTY, "flag-app"},
     region : {NONE, EMPTY, "flag-region"},
     solution : {NONE, EMPTY, "flag-solution"},
     keyname : {NONE, "flag-key"},
     interactive : BOOLEAN,
     nossh : BOOLEAN,
     profile : {NONE, "flag-profile"}]

\* fileoperations.old_eb_config_present() and, when it holds,
\* fileoperations.get_values_from_old_eb().
LegacySources ==
    [present : {FALSE}, region : {NONE}, app_name : {NONE},
     solution_stack_name : {NONE}, default_env : {NONE}]
    \cup
    [present : {TRUE},
     region : {NONE, "old-region"},
     app_name : {NONE, "old-app"},
     solution_stack_name : {NONE, "old-solution"},
     default_env : {"old-env"}]

\* What a fileoperations.get_* lookup gives: NONE stands for None and for
\* NotInitializedError, which every caller turns into None.
Persisted(what) == {NONE, "cfg-" \o what}

Profiles == {"flag-profile", "eb-cli", NONE}

LogEntry(op, arg, region) == [op |-> op, arg |-> arg, region |-> region]

Ops(l) == {l[i].op : i \in 1..Len(l)}

-----------------------------------------------------------------------------
(* State after construction *)

NamerIdle ==
    [pc |-> "idle", app_list |-> <<>>, file_name |-> NONE, shown |-> FALSE,
     new_app |-> FALSE, unique_name |-> UNSET, app_name |-> UNSET]


Init ==
    /\ argv \in CommandLines
    /\ pargs = argv
    /\ self = [nossh |-> FALSE, interactive |-> FALSE, flag |-> FALSE,
               region |-> UNSET, solution |-> UNSET, app_name |-> UNSET,
               keyname |-> UNSET]
    /\ default_env = UNSET
    /\ key = UNSET
    /\ old_values = <<>>
    /\ aws_profile = argv.profile   \* "Profile already set at abstractController"
    /\ profile_status = [p \in Profiles |-> "unknown"]
    /\ depth = 0
    /\ pc = "do_command"
    /\ error = NONE
    /\ setup_call = <<>>
    /\ log = <<>>
    /\ namer = NamerIdle

Raise(e) ==
    /\ pc' = "raised"
    /\ error' = e

-----------------------------------------------------------------------------
(* do_command, lines 44-49: read the arguments *)

do_command ==
    /\ pc = "do_command"
    /\ self' = [self EXCEPT
                 !.nossh = pargs.nossh,
                 !.interactive = pargs.interactive,
                 !.region = pargs.region,
                 !.flag = ~Falsy(pargs.application_name) /\ ~Falsy(pargs.solution)]
    /\ pc' = "get_old_values"
    /\ UNCHANGED <<argv, pargs, default_env, key, old_values, aws_profile,
                   profile_status, depth, error, setup_call, log, namer>>

-----------------------------------------------------------------------------
(* get_old_values, and line 52 *)

\* OldRegion with the test of line 218 missing
OldRegionAlways(current, old) == old

\* line 218: if self.region is None: self.region = region
OldRegion(current, old) == IF current = NONE THEN old ELSE current

\* line 220: if not self.app.pargs.application_name: ... = app_name
OldAppName(current, old) == IF Falsy(current) THEN old ELSE current

\* line 222: if self.app.pargs.solution is None: ... = solution_stack
OldSolution(current, old) == IF current = NONE THEN old ELSE current

get_old_values ==
    /\ pc = "get_old_values"
    /\ \E old \in LegacySources :
         /\ old_values' = <<old>>
         /\ IF old.present
              THEN /\ self' = [self EXCEPT !.region = OldRegion(self.region, old.region)]
                   /\ pargs' = [pargs EXCEPT
                        !.application_name =
                            OldAppName(pargs.application_name, old.app_name),
                        !.solution =
                            OldSolution(pargs.solution, old.solution_stack_name)]
                   /\ log' = log \o
                        << LogEntry("old_eb_config_present", "True", NONE),
                           LogEntry("get_values_from_old_eb", NONE, NONE),
                           LogEntry("setup_credentials", "old-keys", NONE),
                           LogEntry("touch_config_folder", NONE, NONE) >>
              ELSE /\ UNCHANGED <<self, pargs>>
                   /\ log' = log \o
                        << LogEntry("old_eb_config_present", "False", NONE),
                           LogEntry("touch_config_folder", NONE, NONE) >>
         /\ default_env' = old.default_env
    /\ pc' = IF self.interactive THEN "get_region" ELSE "set_up_credentials"
    /\ UNCHANGED <<argv, key, aws_profile, profile_status, depth, error,
                   setup_call, namer>>

-----------------------------------------------------------------------------
(* get_region *)

RegionAnswer == "asked-region"

\* lines 140-147: the flag, else the persisted region
RegionFound(cfg) == IF Falsy(pargs.region) THEN cfg ELSE pargs.region

\* line 150: if not region or self.interactive
RegionPrompted(cfg) == Falsy(RegionFound(cfg)) \/ self.interactive

get_region(cfg) == IF RegionPrompted(cfg) THEN RegionAnswer ELSE RegionFound(cfg)

\* the calls get_region(cfg) makes
RegionLog(cfg) ==
    IF RegionPrompted(cfg)
      THEN << LogEntry("prompt_for_region", RegionAnswer, NONE) >>
      ELSE << >>

\* do_command, lines 54-55
do_command_region ==
    /\ pc = "get_region"
    /\ \E cfg \in Persisted("region") :
         /\ self' = [self EXCEPT !.region = get_region(cfg)]
         /\ log' = log \o RegionLog(cfg)
    /\ pc' = "set_up_credentials"
    /\ UNCHANGED <<argv, pargs, default_env, key, old_values, aws_profile,
                   profile_status, depth, error, setup_call, namer>>

-----------------------------------------------------------------------------
(* operations.credentials_are_valid *)

\* What the remote knows of a profile: it does not exist ("missing"), its
\* credentials are refused ("bad") or accepted ("good").  The answer for a
\* profile is fixed by the first validation that reaches it.
ProfileAnswers(p) ==
    IF profile_status[p] = "unknown"
      THEN {"missing", "bad", "good"}
      ELSE {profile_status[p]}

\* The outcomes of operations.credentials_are_valid(region) for a profile of
\* status st: without a region it fails with NoRegionError, with a missing
\* profile it fails with InvalidProfileError (either of the two when both
\* apply), else it returns whether the credentials are accepted.
credentials_are_valid(region, st) ==
    IF Falsy(region)
      THEN {"NoRegionError"} \cup
           (IF st = "missing" THEN {"InvalidProfileError"} ELSE {})
      ELSE IF st = "missing" THEN {"InvalidProfileError"}
           ELSE IF st = "good" THEN {"True"} ELSE {"False"}

\* The remote's answer becomes known unless the call stopped at the region.
Learn(p, st, out) ==
    IF out = "NoRegionError"
      THEN profile_status
      ELSE [profile_status EXCEPT ![p] = st]

-----------------------------------------------------------------------------
(* set_up_credentials, lines 105-113 *)

set_up_credentials ==
    /\ pc = "set_up_credentials"
    /\ IF ~Falsy(pargs.profile)
         THEN UNCHANGED <<aws_profile, log>>
         ELSE /\ aws_profile' = "eb-cli"
              /\ log' = Append(log, LogEntry("set_profile", "eb-cli", NONE))
    /\ depth' = 0
    /\ pc' = "check_credentials"
    /\ UNCHANGED <<argv, pargs, self, default_env, key, old_values,
                   profile_status, error, setup_call, namer>>

-----------------------------------------------------------------------------
(* check_credentials *)

\* InvalidProfileIsFatal with the raise of line 96 missing
InvalidProfileNeverFatal == FALSE

\* line 94: if given_profile: raise
InvalidProfileIsFatal == ~Falsy(pargs.profile)

\* lines 87-90 with no exception: the result is dropped, every frame returns
check_credentials_returns ==
    /\ pc = "check_credentials"
    /\ \E st \in ProfileAnswers(aws_profile) :
       \E out \in credentials_are_valid(self.region, st) :
         /\ out \in {"True", "False"}
         /\ profile_status' = Learn(aws_profile, st, out)
         /\ log' = Append(log, LogEntry("credentials_are_valid", out, self.region))
    /\ pc' = "secondary_check"
    /\ UNCHANGED <<argv, pargs, self, default_env, key, old_values, aws_profile,
                   depth, error, setup_call, namer>>

\* lines 91-92: except NoRegionError: self.region = self.get_region()
check_credentials_no_region ==
    /\ pc = "check_credentials"
    /\ \E st \in ProfileAnswers(aws_profile) :
       \E out \in credentials_are_valid(self.region, st) :
       \E cfg \in Persisted("region") :
         /\ out = "NoRegionError"
         /\ profile_status' = Learn(aws_profile, st, out)
         /\ self' = [self EXCEPT !.region = get_region(cfg)]
         /\ log' = Append(log, LogEntry("credentials_are_valid", out, self.region))
                   \o RegionLog(cfg)
    /\ pc' = "secondary_check"
    /\ UNCHANGED <<argv, pargs, default_env, key, old_values, aws_profile,
                   depth, error, setup_call, namer>>

\* lines 93-102: except InvalidProfileError
check_credentials_invalid_profile ==
    /\ pc = "check_credentials"
    /\ \E st \in ProfileAnswers(aws_profile) :
       \E out \in credentials_are_valid(self.region, st) :
         /\ out = "InvalidProfileError"
         /\ profile_status' = Learn(aws_profile, st, out)
         /\ IF InvalidProfileIsFatal
              THEN /\ Raise("InvalidProfileError")
                   /\ log' = Append(log,
                        LogEntry("credentials_are_valid", out, self.region))
                   /\ UNCHANGED <<aws_profile, depth>>
              ELSE /\ aws_profile' = NONE
                   /\ log' = log \o
                        << LogEntry("credentials_are_valid", out, self.region),
                           LogEntry("set_profile", NONE, NONE) >>
                   /\ IF depth < MaxRecursion
                        THEN /\ depth' = depth + 1
                             /\ UNCHANGED <<pc, error>>
                        ELSE /\ Raise("RecursionError")
                             /\ UNCHANGED depth
    /\ UNCHANGED <<argv, pargs, self, default_env, key, old_values,
                   setup_call, namer>>

-----------------------------------------------------------------------------
(* set_up_credentials, lines 115-119 *)

set_up_credentials_check ==
    /\ pc = "secondary_check"
    /\ \E st \in ProfileAnswers(aws_profile) :
       \E out \in credentials_are_valid(self.region, st) :
         /\ profile_status' = Learn(aws_profile, st, out)
         /\ LET call == LogEntry("credentials_are_valid", out, self.region)
                done == LogEntry("set_up_credentials returns", NONE, self.region)
            IN CASE out = "False" ->
                      /\ log' = log \o
                           << call, LogEntry("setup_credentials", NONE, NONE), done >>
                      /\ pc' = "get_solution_stack"
                      /\ UNCHANGED error
                 [] out = "True" /\ ~Falsy(pargs.profile) ->
                      /\ log' = log \o
                           << call,
                              LogEntry("write_config_setting", pargs.profile, NONE),
                              done >>
                      /\ pc' = "get_solution_stack"
                      /\ UNCHANGED error
                 [] out = "True" /\ Falsy(pargs.profile) ->
                      /\ log' = log \o << call, done >>
                      /\ pc' = "get_solution_stack"
                      /\ UNCHANGED error
                 [] OTHER ->
                      /\ log' = Append(log, call)
                      /\ Raise(out)
    /\ UNCHANGED <<argv, pargs, self, default_env, key, old_values, aws_profile,
                   depth, setup_call, namer>>

-----------------------------------------------------------------------------
(* get_solution_stack *)

\* lines 161-168: the flag (or what get_old_values put there), else the
\* persisted default
SolutionFound(cfg) == IF Falsy(pargs.solution) THEN cfg ELSE pargs.solution

\* SolutionIsChecked with line 170 reading `if self.app.pargs.solution`
SolutionIsCheckedForFlagOnly(solution_string) == ~Falsy(pargs.solution)

\* line 170: if solution_string
SolutionIsChecked(solution_string) == ~Falsy(solution_string)

\* SolutionRegion with line 171 passing self.app.pargs.region
SolutionRegionFromArgs == pargs.region

\* line 171: the region handed to operations.get_solution_stack
SolutionRegion == self.region

\* line 59 and lines 159-173; operations.get_solution_stack raises for a name
\* the remote does not know
get_solution_stack ==
    /\ pc = "get_solution_stack"
    /\ \E cfg \in Persisted("solution") :
       \E known \in BOOLEAN :
         LET solution_string == SolutionFound(cfg)
         IN IF SolutionIsChecked(solution_string)
              THEN /\ log' = Append(log,
                        LogEntry("get_solution_stack", solution_string, SolutionRegion))
                   /\ IF known
                        THEN /\ self' = [self EXCEPT !.solution = solution_string]
                             /\ pc' = "get_app_name"
                             /\ UNCHANGED error
                        ELSE /\ Raise("NotFoundError")
                             /\ UNCHANGED self
              ELSE /\ self' = [self EXCEPT !.solution = solution_string]
                   /\ pc' = "get_app_name"
                   /\ UNCHANGED <<log, error>>
    /\ UNCHANGED <<argv, pargs, default_env, key, old_values, aws_profile,
                   profile_status, depth, setup_call, namer>>

-----------------------------------------------------------------------------
(* _get_application_name_interactive *)

new_app_option == "[ Create new Application ]"

\* Names of applications the remote may list, and of the current directory.
AppNames == {"dir", "dir-1", "other", new_app_option}
DirNames == {"dir", "other"}

\* What the user may type at the unique-name prompt; EMPTY accepts the default.
TypedNames == {EMPTY, "dir", "other", "fresh"}

\* operations.get_application_names(region): lists without repetition
AppLists ==
    {l \in UNION {[1..n -> AppNames] : n \in 0..MaxApps} :
        \A i, j \in 1..Len(l) : l[i] = l[j] => i = j}

TypedSeqs == UNION {[1..n -> TypedNames] : n \in 1..MaxTyped}

\* utils.get_unique_name(name, current_uniques): the name itself when it is
\* free, else the name with the first free numeric suffix
get_unique_name(name, current_uniques) ==
    IF name \notin Range(current_uniques)
      THEN name
      ELSE LET Candidate(n) == name \o "-" \o ToString(n)
               free == {n \in 1..(Len(current_uniques) + 1) :
                          Candidate(n) \notin Range(current_uniques)}
           IN Candidate(CHOOSE n \in free : \A m \in free : n <= m)

\* io.prompt_for_unique_name(default, unique_list) for a user who types the
\* answers of typed in turn: the first answer that is not in the list, an
\* empty answer standing for the default; UNSET while no answer was accepted
\* (the prompt asks again)
prompt_for_unique_name(default, unique_list, typed) ==
    LET Answer(i) == IF typed[i] = EMPTY THEN default ELSE typed[i]
        accepted == {i \in 1..Len(typed) : Answer(i) \notin Range(unique_list)}
    IN IF accepted = {}
         THEN UNSET
         ELSE Answer(CHOOSE i \in accepted : \A j \in accepted : i <= j)

\* SuggestedName with line 253 skipped: the directory name is suggested
SuggestedNameIsDirectory(file_name, app_list) == file_name

\* line 253: the name suggested at the unique-name prompt
SuggestedName(file_name, app_list) == get_unique_name(file_name, app_list)

\* lines 242-244: the position the selection prompt offers by default
DefaultOption(shown_list, file_name) ==
    IF file_name \in Range(shown_list)
      THEN CHOOSE i \in 1..Len(shown_list) :
             /\ shown_list[i] = file_name
             /\ \A j \in 1..(i - 1) : shown_list[j] # file_name
      ELSE Len(shown_list)

\* lines 232-256, for a remote list fetched, a directory name file_name, a user
\* who picks entry pick of the selection prompt (0: the default) and types
\* typed at the unique-name prompt
GetApplicationNameInteractive(fetched, file_name, pick, typed) ==
    LET shown == Len(fetched) > 0
        app_list == IF shown THEN Append(fetched, new_app_option) ELSE fetched
        chosen == IF pick = 0 THEN DefaultOption(app_list, file_name) ELSE pick
        selected == IF shown THEN app_list[chosen] ELSE UNSET
        new_app == shown /\ selected = new_app_option
        create == Len(app_list) = 0 \/ new_app
        unique_name == SuggestedName(file_name, app_list)
    IN [pc |-> "returned",
        app_list |-> fetched,
        file_name |-> file_name,
        shown |-> shown,
        new_app |-> new_app,
        unique_name |-> IF create THEN unique_name ELSE UNSET,
        app_name |-> IF create
                       THEN prompt_for_unique_name(unique_name, app_list, typed)
                       ELSE selected]

\* The entries the user can pick at the selection prompt of a fetched list
Picks(fetched) == IF Len(fetched) > 0 THEN 0..(Len(fetched) + 1) ELSE {0}

-----------------------------------------------------------------------------
(* get_app_name *)

\* lines 123-130: the argument (or what get_old_values put there), else the
\* persisted application name
AppNameFound(cfg) ==
    IF Falsy(pargs.application_name) THEN cfg ELSE pargs.application_name

\* line 133: if not app_name or self.interactive
AppNamePrompted(cfg) == Falsy(AppNameFound(cfg)) \/ self.interactive

\* The names _get_application_name_interactive can return
InteractiveNames ==
    {GetApplicationNameInteractive(l, f, k, t).app_name :
        <<l, f, k, t>> \in
          {<<l, f, k, t>> \in AppLists \X DirNames \X (0..(MaxApps + 1)) \X TypedSeqs :
              k \in Picks(l)}}
    \ {UNSET}

\* line 60 and lines 121-136
get_app_name ==
    /\ pc = "get_app_name"
    /\ \E cfg \in Persisted("app") :
         IF AppNamePrompted(cfg)
           THEN \E name \in InteractiveNames :
                  /\ self' = [self EXCEPT !.app_name = name]
                  /\ log' = log \o
                       << LogEntry("get_application_names", NONE, self.region),
                          LogEntry("_get_application_name_interactive",
                                   name, self.region) >>
           ELSE /\ self' = [self EXCEPT !.app_name = AppNameFound(cfg)]
                /\ UNCHANGED log
    /\ pc' = "create_app"
    /\ UNCHANGED <<argv, pargs, default_env, key, old_values, aws_profile,
                   profile_status, depth, error, setup_call, namer>>

-----------------------------------------------------------------------------
(* do_command, lines 62-78: create the application, settle the solution *)

SolutionAnswer == "asked-solution"

\* lines 73-74: if not self.solution: self.solution = sstack
SolutionAfterCreate(sstack) == IF Falsy(self.solution) THEN sstack ELSE self.solution

\* SolutionPrompted with line 76 reading `if self.interactive`
SolutionPromptedWhenInteractive(solution) == self.interactive

\* line 76: if not self.solution or self.interactive
SolutionPrompted(solution) == Falsy(solution) \/ self.interactive

create_app ==
    /\ pc = "create_app"
    /\ \E env \in Persisted("env") :
       \E sstack \in {NONE, "app-solution"}, k \in {NONE, "app-key"} :
         /\ default_env' = IF Falsy(default_env) THEN env ELSE default_env
         /\ key' = k
         /\ LET created == LogEntry("create_app", self.app_name, self.region)
                solution == SolutionAfterCreate(sstack)
            IN IF SolutionPrompted(solution)
                 THEN /\ self' = [self EXCEPT !.solution = SolutionAnswer]
                      /\ log' = log \o
                           << created,
                              LogEntry("prompt_for_solution_stack",
                                       SolutionAnswer, self.region) >>
                 ELSE /\ self' = [self EXCEPT !.solution = solution]
                      /\ log' = Append(log, created)
    /\ pc' = "get_keyname"
    /\ UNCHANGED <<argv, pargs, old_values, aws_profile, profile_status, depth,
                   error, setup_call, namer>>

-----------------------------------------------------------------------------
(* get_keyname *)

KeynameAnswer == "asked-key"

\* KeynameFound with the key of create_app tried before the -k flag
KeynameFoundDefaultFirst(default, cfg) ==
    LET keyname == IF Falsy(default) THEN pargs.keyname ELSE default
    IN IF Falsy(keyname) THEN cfg ELSE keyname

\* lines 179-189: the flag, else the default, else the persisted key name
KeynameFound(default, cfg) ==
    LET keyname == IF Falsy(pargs.keyname) THEN default ELSE pargs.keyname
    IN IF Falsy(keyname) THEN cfg ELSE keyname

\* KeynamePrompted with line 191 reading `if self.flag`
KeynamePromptedUnlessFlag(default, cfg) ==
    /\ ~self.nossh
    /\ ~self.flag
    /\ (Falsy(KeynameFound(default, cfg)) \/ self.interactive)

\* lines 176-177 and 191-194: whether operations.prompt_for_ec2_keyname is called
KeynamePrompted(default, cfg) ==
    /\ ~self.nossh
    /\ ~(self.flag /\ ~self.interactive)
    /\ (Falsy(KeynameFound(default, cfg)) \/ self.interactive)

get_keyname(default, cfg) ==
    IF self.nossh
      THEN NONE
      ELSE IF KeynamePrompted(default, cfg)
             THEN KeynameAnswer
             ELSE KeynameFound(default, cfg)

\* do_command, lines 80-83
setup ==
    /\ pc = "get_keyname"
    /\ \E cfg \in Persisted("key") :
         LET keyname == get_keyname(key, cfg)
             asked == IF KeynamePrompted(key, cfg)
                        THEN << LogEntry("prompt_for_ec2_keyname",
                                         KeynameAnswer, self.region) >>
                        ELSE << >>
         IN /\ self' = [self EXCEPT !.keyname = keyname]
            /\ setup_call' = << [app_name |-> self.app_name,
                                 region |-> self.region,
                                 solution |-> self.solution,
                                 keyname |-> keyname] >>
            /\ log' = log \o asked \o << LogEntry("setup", self.app_name, self.region) >>
    /\ pc' = "done"
    /\ UNCHANGED <<argv, pargs, default_env, key, old_values, aws_profile,
                   profile_status, depth, error, namer>>

-----------------------------------------------------------------------------
(* One run of `eb init` *)

Next ==
    \/ do_command
    \/ get_old_values
    \/ do_command_region
    \/ set_up_credentials
    \/ check_credentials_returns
    \/ check_credentials_no_region
    \/ check_credentials_invalid_profile
    \/ set_up_credentials_check
    \/ get_solution_stack
    \/ get_app_name
    \/ create_app
    \/ setup

Spec == Init /\ [][Next]_vars

-----------------------------------------------------------------------------
(* One call of _get_application_name_interactive on its own *)

NamerCalls ==
    {[NamerIdle EXCEPT !.pc = "called", !.app_list = l, !.file_name = f] :
        l \in AppLists, f \in DirNames}

NamerInit ==
    /\ argv = [application_name |-> NONE, region |-> "flag-region",
               solution |-> NONE, keyname |-> NONE, interactive |-> FALSE,
               nossh |-> FALSE, profile |-> NONE]
    /\ pargs = argv
    /\ self = [nossh |-> FALSE, interactive |-> FALSE, flag |-> FALSE,
               region |-> UNSET, solution |-> UNSET, app_name |-> UNSET,
               keyname |-> UNSET]
    /\ default_env = UNSET
    /\ key = UNSET
    /\ old_values = <<>>
    /\ aws_profile = NONE
    /\ profile_status = [p \in Profiles |-> "unknown"]
    /\ depth = 0
    /\ pc = "get_app_name"
    /\ error = NONE
    /\ setup_call = <<>>
    /\ log = <<>>
    /\ namer \in NamerCalls

\* lines 232-256
_get_application_name_interactive ==
    /\ namer.pc = "called"
    /\ \E pick \in Picks(namer.app_list), typed \in TypedSeqs :
         LET r == GetApplicationNameInteractive(namer.app_list, namer.file_name,
                                                pick, typed)
         IN /\ r.app_name # UNSET
            /\ namer' = r
    /\ UNCHANGED <<argv, pargs, self, default_env, key, old_values, aws_profile,
                   profile_status, depth, pc, error, setup_call, log>>

NamerNext == _get_application_name_interactive

NamerSpec == NamerInit /\ [][NamerNext]_vars

-----------------------------------------------------------------------------
(* Properties *)

Called(op) == op \in Ops(log)

Idx(op) == {i \in 1..Len(log) : log[i].op = op}

\* every call of a comes before every call of b
Before(a, b) == \A i \in Idx(a), j \in Idx(b) : i < j

\* the last call of op
LastCall(op) ==
    LET calls == Idx(op)
    IN log[CHOOSE i \in calls : \A j \in calls : j <= i]

SetupDone == setup_call # << >>

Given(v) == ~Falsy(v)

LegacyPresent == old_values # << >> /\ old_values[1].present

\* C1 as stated: in a run without --interactive that reaches
\* operations.setup, each of region, application name, solution stack and key
\* name given by a non-empty flag is passed to operations.setup as that flag
\* value.
C1_FlagPrecedenceAsStated ==
    (SetupDone /\ ~argv.interactive) =>
        /\ Given(argv.region) => setup_call[1].region = argv.region
        /\ Given(argv.application_name) =>
               setup_call[1].app_name = argv.application_name
        /\ Given(argv.solution) => setup_call[1].solution = argv.solution
        /\ Given(argv.keyname) => setup_call[1].keyname = argv.keyname

\* C1 amended: as above, except that the key name flag is passed on only
\* when --nossh is absent; with --nossh the key name passed is None.
C1_FlagPrecedence ==
    (SetupDone /\ ~argv.interactive) =>
        /\ Given(argv.region) => setup_call[1].region = argv.region
        /\ Given(argv.application_name) =>
               setup_call[1].app_name = argv.application_name
        /\ Given(argv.solution) => setup_call[1].solution = argv.solution
        /\ (Given(argv.keyname) /\ ~argv.nossh) =>
               setup_call[1].keyname = argv.keyname
        /\ argv.nossh => setup_call[1].keyname = NONE

C1_Witness ==
    /\ SetupDone
    /\ ~argv.interactive
    /\ ~argv.nossh
    /\ Given(argv.region) /\ Given(argv.application_name)
    /\ Given(argv.solution) /\ Given(argv.keyname)
    /\ LegacyPresent
    /\ old_values[1].region = "old-region"
    /\ key = "app-key"
    /\ setup_call[1].keyname = "flag-key"

\* C2 as stated: in a run with --interactive that reaches operations.setup,
\* the prompt of each of region, application name, solution stack and key name
\* was shown and operations.setup gets what that prompt returned.
C2_ForcedInteractiveAsStated ==
    (SetupDone /\ argv.interactive) =>
        /\ Called("prompt_for_region")
        /\ setup_call[1].region = LastCall("prompt_for_region").arg
        /\ Called("_get_application_name_interactive")
        /\ setup_call[1].app_name = LastCall("_get_application_name_interactive").arg
        /\ Called("prompt_for_solution_stack")
        /\ setup_call[1].solution = LastCall("prompt_for_solution_stack").arg
        /\ Called("prompt_for_ec2_keyname")
        /\ setup_call[1].keyname = LastCall("prompt_for_ec2_keyname").arg

\* C2 amended: as above for region, application name and solution stack; the
\* key name prompt is shown, and its answer passed on, unless --nossh is
\* given, and with --nossh no key name prompt is shown and None is passed.
C2_ForcedInteractive ==
    (SetupDone /\ argv.interactive) =>
        /\ Called("prompt_for_region")
        /\ setup_call[1].region = LastCall("prompt_for_region").arg
        /\ Called("_get_application_name_interactive")
        /\ setup_call[1].app_name = LastCall("_get_application_name_interactive").arg
        /\ Called("prompt_for_solution_stack")
        /\ setup_call[1].solution = LastCall("prompt_for_solution_stack").arg
        /\ IF argv.nossh
             THEN /\ ~Called("prompt_for_ec2_keyname")
                  /\ setup_call[1].keyname = NONE
             ELSE /\ Called("prompt_for_ec2_keyname")
                  /\ setup_call[1].keyname = LastCall("prompt_for_ec2_keyname").arg

C2_Witness ==
    /\ SetupDone
    /\ argv.interactive
    /\ ~argv.nossh
    /\ Given(argv.region) /\ Given(argv.application_name)
    /\ Given(argv.solution) /\ Given(argv.keyname)
    /\ LegacyPresent
    /\ setup_call[1].keyname = KeynameAnswer
    /\ setup_call[1].region = RegionAnswer

\* some credential validation of this run failed with InvalidProfileError
InvalidProfileReported ==
    \E i \in Idx("credentials_are_valid") : log[i].arg = "InvalidProfileError"

\* the credential setup flow of set_up_credentials (line 116) was started
SetupFlowStarted ==
    \E i \in Idx("setup_credentials") : log[i].arg = NONE

\* C3: with --profile given, once a credential validation fails with
\* InvalidProfileError the run has ended with that error, and the run holds
\* no aws.set_profile call, no credential setup flow, no write of the
\* profile to the local configuration, no create_app and no operations.setup.
C3_ExplicitInvalidProfileIsFatal ==
    (Given(argv.profile) /\ InvalidProfileReported) =>
        /\ pc = "raised"
        /\ error = "InvalidProfileError"
        /\ aws_profile = argv.profile
        /\ ~Called("set_profile")
        /\ ~SetupFlowStarted
        /\ ~Called("write_config_setting")
        /\ ~Called("create_app")
        /\ ~Called("setup")
        /\ ~SetupDone

C3_Witness ==
    /\ Given(argv.profile)
    /\ InvalidProfileReported
    /\ pc = "raised"
    /\ Called("prompt_for_region")
    /\ LegacyPresent

\* C4: without --profile, no InvalidProfileError and no NoRegionError of a
\* credential validation leaves set_up_credentials.
C4_NoCredentialErrorPropagates ==
    Falsy(argv.profile) =>
        ~(/\ pc = "raised"
          /\ error \in {"InvalidProfileError", "NoRegionError"}
          /\ ~Called("set_up_credentials returns"))

\* C5: check_credentials calls itself at most once and then returns.
C5_RecursesAtMostOnce ==
    /\ depth <= 1
    /\ error # "RecursionError"

\* get_solution_stack has returned
SolutionStackResolved ==
    pc \in {"get_app_name", "create_app", "get_keyname", "done"}

\* operations.get_solution_stack was asked about name, with the region the
\* credential phase ended with
Validated(name) ==
    \E i \in Idx("get_solution_stack") :
        /\ log[i].arg = name
        /\ Called("set_up_credentials returns")
        /\ log[i].region = LastCall("set_up_credentials returns").region

\* C6: a non-empty solution stack name found in the -s flag, the legacy
\* config or the persisted config is accepted only after
\* operations.get_solution_stack was called for it with the resolved region,
\* and before any application is listed or created; when that call fails the
\* run ends with its error, and no create_app, no solution stack prompt and
\* no operations.setup happen in the run.
C6_SolutionStackValidated ==
    /\ (pc = "get_app_name" /\ Given(self.solution)) =>
           /\ Validated(self.solution)
           /\ log[Len(log)] =
                  LogEntry("get_solution_stack", self.solution, self.region)
    /\ (SolutionStackResolved /\ Given(argv.solution)) => Validated(argv.solution)
    /\ (/\ SolutionStackResolved
        /\ argv.solution = NONE
        /\ LegacyPresent
        /\ Given(old_values[1].solution_stack_name)) =>
           Validated(old_values[1].solution_stack_name)
    /\ Before("get_solution_stack", "get_application_names")
    /\ Before("get_solution_stack", "create_app")
    /\ error = "NotFoundError" =>
           /\ pc = "raised"
           /\ log[Len(log)].op = "get_solution_stack"
           /\ ~Called("get_application_names")
           /\ ~Called("create_app")
           /\ ~Called("prompt_for_solution_stack")
           /\ ~Called("setup")
           /\ ~SetupDone

C6_Witness ==
    /\ error = "NotFoundError"
    /\ log[Len(log)].arg = "cfg-solution"
    /\ log[Len(log)].region = RegionAnswer

\* C7 as stated: when operations.setup is called, app_name, region and
\* solution are non-empty, and keyname is non-empty unless --nossh was given.
C7_NoEmptyFieldAsStated ==
    SetupDone =>
        /\ Given(setup_call[1].app_name)
        /\ Given(setup_call[1].region)
        /\ Given(setup_call[1].solution)
        /\ ~argv.nossh => Given(setup_call[1].keyname)

\* C7 amended: when operations.setup is called, app_name, region and solution
\* are non-empty, and keyname is non-empty unless --nossh was given or both
\* the application name and the solution stack were given on the command
\* line without --interactive.
C7_NoEmptyField ==
    SetupDone =>
        /\ Given(setup_call[1].app_name)
        /\ Given(setup_call[1].region)
        /\ Given(setup_call[1].solution)
        /\ (/\ ~argv.nossh
            /\ ~(/\ Given(argv.application_name)
                 /\ Given(argv.solution)
                 /\ ~argv.interactive)) =>
               Given(setup_call[1].keyname)

C7_Witness ==
    /\ SetupDone
    /\ ~argv.nossh
    /\ ~argv.interactive
    /\ Given(argv.application_name)
    /\ Falsy(argv.solution)
    /\ Falsy(argv.keyname)
    /\ key = NONE
    /\ setup_call[1].keyname = KeynameAnswer
    /\ setup_call[1].solution = SolutionAnswer
    /\ setup_call[1].region = RegionAnswer

\* the calls that use the region of the credential phase
RegionUsers ==
    {"get_solution_stack", "get_application_names",
     "_get_application_name_interactive", "create_app",
     "prompt_for_solution_stack", "prompt_for_ec2_keyname", "setup"}

\* The phase of do_command a call belongs to: 1 the legacy import, 2 the
\* credential phase (with the region prompts), 3 the return of
\* set_up_credentials, 4 the resolution of solution stack and application
\* name, 5 create_app, 6 the prompts after it, 7 operations.setup.
Phase(e) ==
    CASE e.op \in {"old_eb_config_present", "get_values_from_old_eb",
                   "touch_config_folder"} -> 1
      [] e.op = "setup_credentials" -> IF e.arg = NONE THEN 2 ELSE 1
      [] e.op \in {"prompt_for_region", "set_profile", "credentials_are_valid",
                   "write_config_setting"} -> 2
      [] e.op = "set_up_credentials returns" -> 3
      [] e.op \in {"get_solution_stack", "get_application_names",
                   "_get_application_name_interactive"} -> 4
      [] e.op = "create_app" -> 5
      [] e.op \in {"prompt_for_solution_stack", "prompt_for_ec2_keyname"} -> 6
      [] e.op = "setup" -> 7

\* the calls made at most once in a run
OnceOnly ==
    {"old_eb_config_present", "get_values_from_old_eb", "touch_config_folder",
     "set_up_credentials returns", "create_app", "setup"}

\* C8: the legacy import runs exactly once and before the first credential
\* validation; set_up_credentials returns before the solution stack is
\* validated and before the application name is resolved; both are done
\* before create_app; operations.setup is called at most once and last; and
\* all of them use the region set_up_credentials ended with.
C8_PhaseOrdering ==
    /\ \A i \in 1..(Len(log) - 1) : Phase(log[i]) <= Phase(log[i + 1])
    /\ \A i \in 1..(Len(log) - 1) :
           log[i].op \in OnceOnly => \A j \in (i + 1)..Len(log) : log[j].op # log[i].op
    /\ Len(log) > 0 => log[1].op = "old_eb_config_present"
    /\ pc \notin {"do_command", "get_old_values"} => Len(log) > 0
    /\ (\E i \in 1..Len(log) : log[i].op \in RegionUsers) =>
           /\ Called("set_up_credentials returns")
           /\ LET fixed == LastCall("set_up_credentials returns").region
              IN \A i \in 1..Len(log) :
                     log[i].op \in RegionUsers => log[i].region = fixed
    /\ Called("create_app") =>
           /\ self.solution # UNSET
           /\ self.app_name # UNSET
           /\ LastCall("create_app").arg = self.app_name
    /\ Called("setup") =>
           /\ Called("create_app")
           /\ SetupDone
           /\ setup_call[1].region = LastCall("set_up_credentials returns").region
    /\ SetupDone => /\ pc = "done"
                    /\ log[Len(log)].op = "setup"

C8_Witness ==
    /\ pc = "done"
    /\ LegacyPresent
    /\ Called("prompt_for_region")
    /\ Called("get_solution_stack")
    /\ Called("get_application_names")
    /\ Called("prompt_for_ec2_keyname")
    /\ Cardinality(Idx("credentials_are_valid")) = 3

\* get_old_values has just returned: nothing else has run since
OldValuesReturned ==
    \/ pc = "get_region"
    \/ pc = "set_up_credentials" /\ ~self.interactive

\* C9: after get_old_values with a legacy config, each of region,
\* application name and solution stack given (non-empty) on the command line
\* still holds that value, and a field holds the legacy value only if its
\* flag was absent or empty; with no legacy config nothing changes, no
\* credentials are migrated and None is returned.
C9_LegacyKeepsFlags ==
    OldValuesReturned =>
        IF LegacyPresent
          THEN /\ Given(argv.region) => self.region = argv.region
               /\ Given(argv.application_name) =>
                      pargs.application_name = argv.application_name
               /\ Given(argv.solution) => pargs.solution = argv.solution
               /\ self.region # argv.region =>
                      /\ Falsy(argv.region)
                      /\ self.region = old_values[1].region
               /\ pargs.application_name # argv.application_name =>
                      /\ Falsy(argv.application_name)
                      /\ pargs.application_name = old_values[1].app_name
               /\ pargs.solution # argv.solution =>
                      /\ Falsy(argv.solution)
                      /\ pargs.solution = old_values[1].solution_stack_name
               /\ pargs = [argv EXCEPT
                             !.application_name = pargs.application_name,
                             !.solution = pargs.solution]
               /\ default_env = old_values[1].default_env
          ELSE /\ self.region = argv.region
               /\ pargs = argv
               /\ default_env = NONE
               /\ ~Called("setup_credentials")
               /\ ~Called("get_values_from_old_eb")

C9_Witness ==
    /\ OldValuesReturned
    /\ LegacyPresent
    /\ old_values[1].region = "old-region"
    /\ old_values[1].app_name = "old-app"
    /\ old_values[1].solution_stack_name = "old-solution"
    /\ self.region = "flag-region"
    /\ pargs.application_name = "flag-app"
    /\ pargs.solution = "old-solution"

\* C10: on the create-new path (empty remote list, or the create-new entry
\* selected) the suggested name is not in the existing application list and
\* the returned name is non-empty and not in that list; with an empty list
\* the selection prompt is not shown.
C10_CreateNewNameIsUnique ==
    namer.pc = "returned" =>
        /\ (Len(namer.app_list) = 0 \/ namer.new_app) =>
               /\ namer.unique_name # UNSET
               /\ namer.unique_name \notin Range(namer.app_list)
               /\ namer.app_name \notin {NONE, EMPTY, UNSET}
               /\ namer.app_name \notin Range(namer.app_list)
        /\ Len(namer.app_list) = 0 => ~namer.shown

C10_Witness ==
    /\ namer.pc = "returned"
    /\ namer.new_app
    /\ namer.file_name \in Range(namer.app_list)
    /\ namer.unique_name = "dir-2"
    /\ namer.app_name = "fresh"

====
